---- MODULE Spec2Model ----
(***************************************************************************)
(* Model of rsh_server.c: the accept loop (run), the session loop          *)
(* (handle_client), the sentinel scanner (read_cli_buffer), the command    *)
(* assembler (assemble_cmd) and the abort flag set by sig_handler.         *)
(*                                                                         *)
(* Bytes are their integer codes.  A C string held in a zero-filled buffer *)
(* is a sequence of bytes; index i of the sequence is index i-1 of the C   *)
(* array, and every position past the end of the sequence holds 0.         *)
(***************************************************************************)
EXTENDS Integers, Sequences, FiniteSets, TLC

\* ------------------------------------------------------------------
\* Program constants
\* ------------------------------------------------------------------
END_OF_TEXT_BYTE == 3
END_OF_TRANSMISSION_BYTE == 4
SPACE == 32
NEWLINE == 10
CLIENT_REPLY_TIMEOUT == 120
PROMPT_TIMEOUT == 1

\* sizeof(user_cmd), sizeof(client_cmd)
BUF_SIZE == 1024

\* " ; "
CMD_SEPARATOR == <<32, 59, 32>>
\* "exit\n"
EXIT_CMD == <<101, 120, 105, 116, 10>>

\* ------------------------------------------------------------------
\* Bounds of the environment
\* ------------------------------------------------------------------
\* bytes the peer sends in one session
MaxPeer == 4
\* connections the peers open
MaxSessions == 2
\* operator line reads (fgets calls) answered in one session
MaxCmds == 2
\* seconds a single scan is observed to spend blocked before data arrives
MaxWait == 1

\* the bytes a peer may send: the two sentinels, a space, and the letter h
PeerBytes == {END_OF_TEXT_BYTE, END_OF_TRANSMISSION_BYTE, SPACE, 104}

\* what the operator-line read may leave in user_cmd: "\n", "ls\n",
\* "exit\n", "exit" cut by end of input before its newline, and the empty
\* string (the read obtained nothing and the zeroed buffer is untouched)
KbLines == { <<10>>, <<108, 115, 10>>, <<101, 120, 105, 116, 10>>,
             <<101, 120, 105, 116>>, <<>> }

\* prints of a byte that no read delivered which are recorded, per scan
MaxStale == 1
\* bytes before the newline of an operator line given to assemble_cmd alone
MaxLine == 3

\* connections opened and bytes sent per session where shutdown is followed
\* to its end
ShutdownSessions == 1
ShutdownPeer == 2

\* bytes of a -p argument enumerated in full
MaxArgLen == 3

\* the bytes of those lines: l, s, space and ;
LineBytes == {108, 115, 32, 59}

VARIABLES
  pc,          \* position of the (single) thread of the process
  user_abort,  \* the global flag of line 23
  sigSeen,     \* a signal has been delivered to sig_handler
  \* --- run
  pending,     \* a peer connection waits in the listen backlog
  sessions,    \* connections accepted so far
  listening,   \* s_fd is open
  connOpen,    \* c_fd is open
  runEntryAbort, \* user_abort when the accept loop was entered
  runWaited,     \* the accept loop has called select
  hcExit,        \* where the last handle_client returned from: "none",
                 \* "loop" (line 132), "read" (line 138), "exit" (line 146)
  \* --- the connection of the current session
  conn,        \* bytes delivered by the peer and not yet read
  connState,   \* "none", "open", "closed" (the peer is gone: once the bytes
               \* queued are read, read delivers no more)
  nsent,       \* bytes the peer delivered in this session
  nwritten,    \* write(2) calls made on the connection
  \* --- handle_client
  user_cmd,    \* the operator line buffer, as a C string
  client_cmd,  \* the wire command buffer
  cmd_len,
  nlines,      \* operator line reads performed in this session
  hcEntryAbort,  \* user_abort when handle_client was entered
  oobWrite,    \* the last assemble_cmd wrote before the start of client_cmd
  nscans,      \* calls of read_cli_buffer made in this session
  \* --- read_cli_buffer
  scanKind,    \* "none", "prompt", "reply"
  timeout,     \* the timeout argument
  tout,        \* tout.tv_sec
  eotrs,
  eotxt,
  cli_buffer,
  ret,         \* what select returned last
  lastRead,    \* what the last read returned: "none", "byte", "eof", "err"
  scanIn,      \* bytes queued on the connection when the current scan was
               \* entered, followed by the bytes the peer delivered since
  scanBytes,   \* bytes read(2) returned in the current scan
  scanOut,     \* bytes printed by the current scan
  scanOutcome, \* "none", "running", "success", "timeout", "error", "abort"
  scanEntryAbort, \* user_abort when the scan was entered
  scanWaited,     \* the current scan has called select
  \* --- main
  argv,        \* the options of the command line, in order
  port         \* cfg.port

runVars  == <<pending, sessions, listening, connOpen, runEntryAbort, runWaited,
              hcExit>>
connVars == <<conn, connState, nsent, nwritten>>
hcVars   == <<user_cmd, client_cmd, cmd_len, nlines, hcEntryAbort, oobWrite,
              nscans>>
scanVars == <<scanKind, timeout, tout, eotrs, eotxt, cli_buffer, ret, lastRead,
              scanIn, scanBytes, scanOut, scanOutcome, scanEntryAbort, scanWaited>>
mainVars == <<argv, port>>
vars == <<pc, user_abort, sigSeen, runVars, connVars, hcVars, scanVars,
          mainVars>>

\* ------------------------------------------------------------------
\* Helpers on C buffers
\* ------------------------------------------------------------------
Max(a, b) == IF a >= b THEN a ELSE b
Min(a, b) == IF a <= b THEN a ELSE b

\* strlen: the number of bytes before the first 0
Strlen(buf) ==
  IF \E i \in 1..Len(buf) : buf[i] = 0
  THEN (CHOOSE i \in 1..Len(buf) : buf[i] = 0 /\ \A j \in 1..(i-1) : buf[j] # 0) - 1
  ELSE Len(buf)

\* memcpy(dst, src, n)
Memcpy(dst, src, n) ==
  [i \in 1..Max(Len(dst), n) |-> IF i <= n THEN src[i] ELSE dst[i]]

\* sprintf(&dst[off], ...) producing the bytes s and a terminating 0; off may
\* be -1, and the byte that falls before the buffer is not part of it
SprintfAt(dst, off, s) ==
  [i \in 1..Max(Len(dst), off + Len(s) + 1) |->
     LET c == i - 1 IN
     IF c >= off /\ c < off + Len(s) THEN s[c - off + 1]
     ELSE IF c = off + Len(s) THEN 0
     ELSE IF i <= Len(dst) THEN dst[i] ELSE 0]

\* the expansion of  printf "%c%c"\n  with the two bytes
TrailerText(c1, c2) ==
  <<112, 114, 105, 110, 116, 102, 32, 34>> \o <<c1, c2>> \o <<34, 10>>

\* assemble_cmd with the trailer written at cmd_len instead of cmd_len - 1
assemble_cmd_at_len(kb_cmd, out_buf, len) ==
  LET first == IF Len(kb_cmd) >= 1 THEN kb_cmd[1] ELSE 0
      buf == IF first # NEWLINE
             THEN SprintfAt(Memcpy(out_buf, kb_cmd, len), len,
                            CMD_SEPARATOR \o
                            TrailerText(END_OF_TEXT_BYTE, END_OF_TRANSMISSION_BYTE))
             ELSE SprintfAt(out_buf, len,
                            TrailerText(END_OF_TEXT_BYTE, END_OF_TRANSMISSION_BYTE))
  IN [user_cmd |-> buf, cmd_len |-> Strlen(buf), oob |-> FALSE]

\* lines 109-121.  kb_cmd is the operator line, user_cmd the (zeroed) output
\* buffer, cmd_len the length of kb_cmd on entry.
assemble_cmd(kb_cmd, out_buf, len) ==
  LET first == IF Len(kb_cmd) >= 1 THEN kb_cmd[1] ELSE 0
      buf == IF first # NEWLINE
             THEN SprintfAt(Memcpy(out_buf, kb_cmd, len), len - 1,
                            CMD_SEPARATOR \o
                            TrailerText(END_OF_TEXT_BYTE, END_OF_TRANSMISSION_BYTE))
             ELSE SprintfAt(out_buf, len - 1,
                            TrailerText(END_OF_TEXT_BYTE, END_OF_TRANSMISSION_BYTE))
  IN [user_cmd |-> buf, cmd_len |-> Strlen(buf), oob |-> (len - 1 < 0)]

\* the comparison of line 145 made without the newline of EXIT_CMD
IsExitCmd_no_newline(line) ==
  Len(line) >= 4 /\ SubSeq(line, 1, 4) = SubSeq(EXIT_CMD, 1, 4)

\* line 145: !strncmp(user_cmd, EXIT_CMD, exit_cmd_len)
IsExitCmd(line) ==
  LET n == Len(EXIT_CMD)
      at(s, i) == IF i <= Len(s) THEN s[i] ELSE 0
  IN \A i \in 1..n :
       (at(line, i) = at(EXIT_CMD, i))
       \/ (\E j \in 1..(i-1) : at(line, j) = 0 /\ at(EXIT_CMD, j) = 0)

\* the switch with a space ending the scan once either sentinel was read
ScanSwitch_either_flag(b, rs, txt) ==
  IF b = END_OF_TRANSMISSION_BYTE
    THEN [eotrs |-> TRUE, eotxt |-> txt, print |-> FALSE, done |-> FALSE]
  ELSE IF b = END_OF_TEXT_BYTE
    THEN [eotrs |-> rs, eotxt |-> TRUE, print |-> FALSE, done |-> FALSE]
  ELSE IF b = SPACE
    THEN [eotrs |-> rs, eotxt |-> txt, print |-> TRUE, done |-> (rs \/ txt)]
  ELSE [eotrs |-> rs, eotxt |-> txt, print |-> TRUE, done |-> FALSE]

\* the switch with break in the place of the return of line 99
ScanSwitch_break(b, rs, txt) ==
  IF b = END_OF_TRANSMISSION_BYTE
    THEN [eotrs |-> TRUE, eotxt |-> txt, print |-> FALSE, done |-> FALSE]
  ELSE IF b = END_OF_TEXT_BYTE
    THEN [eotrs |-> rs, eotxt |-> TRUE, print |-> FALSE, done |-> FALSE]
  ELSE [eotrs |-> rs, eotxt |-> txt, print |-> TRUE, done |-> FALSE]

\* lines 88-104: the switch on the byte held in cli_buffer.  print is whether
\* the byte goes to the terminal, done whether read_cli_buffer returns.
ScanSwitch(b, rs, txt) ==
  IF b = END_OF_TRANSMISSION_BYTE
    THEN [eotrs |-> TRUE, eotxt |-> txt, print |-> FALSE, done |-> FALSE]
  ELSE IF b = END_OF_TEXT_BYTE
    THEN [eotrs |-> rs, eotxt |-> TRUE, print |-> FALSE, done |-> FALSE]
  ELSE IF b = SPACE
    THEN [eotrs |-> rs, eotxt |-> txt, print |-> TRUE, done |-> (rs /\ txt)]
  ELSE [eotrs |-> rs, eotxt |-> txt, print |-> TRUE, done |-> FALSE]

\* a loop that does not test the flag
LoopGuard_always(abort) == TRUE

\* lines 72, 132, 189: the condition of the three while (!user_abort) loops
LoopGuard(abort) == ~abort

\* the test of line 77 taken as ret <= 0 by the error branch
SelectBranch_timeout_as_error(r) ==
  IF r <= 0 THEN "error" ELSE "ready"

\* lines 76-83: the branch taken on the value select returned
SelectBranch(r) ==
  IF r = 0 THEN "timeout" ELSE IF r = -1 THEN "error" ELSE "ready"

\* the bytes of a sequence that are neither sentinel
Printable(bytes) ==
  SelectSeq(bytes, LAMBDA x : x # END_OF_TEXT_BYTE /\ x # END_OF_TRANSMISSION_BYTE)

\* RSH_RAW_LOG("%c", b) after a read that delivered b (got) or delivered
\* nothing; of the latter prints the first MaxStale of a scan are recorded
Emit(out, b, got, stale) ==
  IF got \/ stale < MaxStale THEN Append(out, b) ELSE out

\* select(2) on the connection reports it readable: data is queued, or the
\* stream has ended or failed
Readable == conn # <<>> \/ connState # "open"

\* cli_buffer and ret are not initialised (lines 64-65): Uninit marks them
\* until they are set; it is no byte and no value select returns.  The value
\* found in an unset cli_buffer is chosen when it is first looked at.
Uninit == 256
UninitBytes == PeerBytes

\* ------------------------------------------------------------------
\* parse_args
\* ------------------------------------------------------------------
\* isspace and isdigit in the C locale
IsSpaceChar(c) == c \in {32, 9, 10, 11, 12, 13}
IsDigit(c) == c \in 48..57

\* the index of the first byte of s at or after i that is no white space
RECURSIVE SkipSpace(_, _)
SkipSpace(s, i) ==
  IF i <= Len(s) /\ IsSpaceChar(s[i]) THEN SkipSpace(s, i + 1) ELSE i

\* the value of the decimal digits of s from index i on, after acc
RECURSIVE DigitsFrom(_, _, _)
DigitsFrom(s, i, acc) ==
  IF i <= Len(s) /\ IsDigit(s[i])
  THEN DigitsFrom(s, i + 1, acc * 10 + (s[i] - 48))
  ELSE acc

\* atoi(3): white space, an optional sign, then decimal digits up to the
\* first byte that is none; 0 when there is no digit
Atoi(s) ==
  LET i == SkipSpace(s, 1)
      signed == i <= Len(s) /\ s[i] \in {43, 45}
      v == DigitsFrom(s, IF signed THEN i + 1 ELSE i, 0)
  IN IF signed /\ s[i] = 45 THEN 0 - v ELSE v

\* htons(3) on a little-endian host: the argument converted to uint16_t,
\* its two bytes swapped
Htons(x) ==
  LET u == x % 65536 IN (u % 256) * 256 + (u \div 256)

\* lines 43-51: the getopt loop from option i on, with cfg->port = p so far.
\* An option that is neither p nor h (getopt gave '?') has no case.
RECURSIVE GetoptLoop(_, _, _)
GetoptLoop(args, i, p) ==
  IF i > Len(args) THEN [ret |-> -1, port |-> p]
  ELSE IF args[i].opt = "p" THEN GetoptLoop(args, i + 1, Htons(Atoi(args[i].arg)))
  ELSE IF args[i].opt = "h" THEN [ret |-> 1, port |-> p]
  ELSE GetoptLoop(args, i + 1, p)

\* lines 39-58: what parse_args returns and leaves in cfg->port (0 before)
parse_args(args) ==
  LET l == GetoptLoop(args, 1, 0)
  IN IF l.ret = 1 THEN l
     ELSE IF l.port = 0 THEN [ret |-> 1, port |-> l.port]
     ELSE [ret |-> 0, port |-> l.port]

\* everything but pc, user_cmd, argv and port as it is before run is called
Fresh ==
  /\ user_abort = FALSE
  /\ sigSeen = FALSE
  /\ pending = FALSE
  /\ sessions = 0
  /\ listening = FALSE
  /\ connOpen = FALSE
  /\ runEntryAbort = FALSE
  /\ runWaited = FALSE
  /\ hcExit = "none"
  /\ conn = <<>>
  /\ connState = "none"
  /\ nsent = 0
  /\ nwritten = 0
  /\ client_cmd = <<>>
  /\ cmd_len = 0
  /\ nlines = 0
  /\ hcEntryAbort = FALSE
  /\ oobWrite = FALSE
  /\ scanKind = "none"
  /\ timeout = 0
  /\ tout = 0
  /\ eotrs = FALSE
  /\ eotxt = FALSE
  /\ cli_buffer = Uninit
  /\ ret = Uninit
  /\ lastRead = "none"
  /\ scanIn = <<>>
  /\ scanBytes = <<>>
  /\ scanOut = <<>>
  /\ scanOutcome = "none"
  /\ scanEntryAbort = FALSE
  /\ scanWaited = FALSE
  /\ nscans = 0

\* ------------------------------------------------------------------
\* Initial state: main has registered sig_handler (lines 229-232) and is
\* about to call run (line 234)
\* ------------------------------------------------------------------
Init ==
  /\ pc = "main"
  /\ user_cmd = <<>>
  /\ argv = <<[opt |-> "p", arg |-> <<49>>]>>
  /\ port = Htons(Atoi(<<49>>))
  /\ Fresh

\* ------------------------------------------------------------------
\* read_cli_buffer
\* ------------------------------------------------------------------
\* read_cli_buffer with eotrs and eotxt declared without a value, as
\* cli_buffer and ret are
ScanEnter_no_init(kind, t, queued) ==
  /\ scanKind' = kind
  /\ timeout' = t
  /\ tout' = t
  /\ eotrs' \in BOOLEAN
  /\ eotxt' \in BOOLEAN
  /\ cli_buffer' = Uninit
  /\ ret' = Uninit
  /\ lastRead' = "none"
  /\ scanIn' = queued
  /\ scanBytes' = <<>>
  /\ scanOut' = <<>>
  /\ scanOutcome' = "running"
  /\ scanEntryAbort' = user_abort
  /\ scanWaited' = FALSE

\* lines 60-70: the call read_cli_buffer(client_fd, t), with queued the bytes
\* that wait on the connection; the loop test of line 72 comes next
ScanEnter(kind, t, queued) ==
  /\ scanKind' = kind
  /\ timeout' = t
  /\ tout' = t
  /\ eotrs' = FALSE
  /\ eotxt' = FALSE
  /\ cli_buffer' = Uninit
  /\ ret' = Uninit
  /\ lastRead' = "none"
  /\ scanIn' = queued
  /\ scanBytes' = <<>>
  /\ scanOut' = <<>>
  /\ scanOutcome' = "running"
  /\ scanEntryAbort' = user_abort
  /\ scanWaited' = FALSE

\* line 72: while (!user_abort); the loop ends and read_cli_buffer returns to
\* the loop test of handle_client, or select is called (line 76)
ScanLoop ==
  /\ pc = "scan_loop"
  /\ IF LoopGuard(user_abort)
       THEN /\ pc' = "scan_select"
            /\ scanWaited' = TRUE
            /\ UNCHANGED scanOutcome
       ELSE /\ pc' = "hc_loop"
            /\ scanOutcome' = "abort"
            /\ UNCHANGED scanWaited
  /\ UNCHANGED <<mainVars, user_abort, sigSeen, runVars, connVars, hcVars, scanKind,
                 timeout, tout, eotrs, eotxt, cli_buffer, ret, lastRead,
                 scanIn, scanBytes, scanOut, scanEntryAbort>>

\* time passes while select is blocked with nothing to read; select leaves
\* the time that remains in tout
ScanWait ==
  /\ pc = "scan_select"
  /\ ~Readable
  /\ tout > 0
  /\ timeout - tout < MaxWait
  /\ tout' = tout - 1
  /\ UNCHANGED <<mainVars, pc, user_abort, sigSeen, runVars, connVars, hcVars, scanKind,
                 timeout, eotrs, eotxt, cli_buffer, ret, lastRead, scanIn,
                 scanBytes, scanOut, scanOutcome, scanEntryAbort, scanWaited>>

\* lines 76-85 with the value r that select returned without marking the
\* connection readable: 0 and -1 leave the loop, and read_cli_buffer returns
\* to the loop test of handle_client
ScanSelectReturns(r) ==
  /\ ret' = r
  /\ pc' = IF SelectBranch(r) = "ready" THEN "scan_loop" ELSE "hc_loop"
  /\ scanOutcome' = IF SelectBranch(r) = "ready" THEN scanOutcome
                    ELSE SelectBranch(r)

\* line 76: nothing became readable for the time left in tout; select
\* returns 0 (lines 77-79)
ScanSelectTimeout ==
  /\ pc = "scan_select"
  /\ ~Readable
  /\ tout' = 0
  /\ ScanSelectReturns(0)
  /\ UNCHANGED <<mainVars, user_abort, sigSeen, runVars, connVars, hcVars, scanKind,
                 timeout, eotrs, eotxt, cli_buffer, lastRead, scanIn, scanBytes,
                 scanOut, scanEntryAbort, scanWaited>>

\* line 76: select fails for a reason other than a signal (ENOMEM); lines
\* 80-83 log the error and leave the loop
ScanSelectFails ==
  /\ pc = "scan_select"
  /\ ~Readable
  /\ ScanSelectReturns(-1)
  /\ UNCHANGED <<mainVars, user_abort, sigSeen, runVars, connVars, hcVars,
                 scanKind, timeout, tout, eotrs, eotxt, cli_buffer, lastRead,
                 scanIn, scanBytes, scanOut, scanEntryAbort, scanWaited>>

\* lines 85-104: select reported the connection readable; one read, then the
\* switch on cli_buffer.  The value read returns is ignored (line 86): when it
\* delivers no byte, cli_buffer keeps what it held.  The first read that
\* finds the connection of a departed peer drained returns 0 (end of stream)
\* or fails (the peer reset the connection); the reads after it return 0.
ScanRead ==
  /\ pc = "scan_select"
  /\ Readable
  /\ SelectBranch(1) = "ready"
  /\ \E u \in UninitBytes, fails \in BOOLEAN :
       LET got  == conn # <<>>
           b    == IF got THEN Head(conn)
                   ELSE IF cli_buffer = Uninit THEN u ELSE cli_buffer
           sw   == ScanSwitch(b, eotrs, eotxt)
           stale == Len(scanOut) - Len(Printable(scanBytes))
       IN /\ (got \/ cli_buffer # Uninit) => u = SPACE
          /\ fails => (~got /\ lastRead \notin {"eof", "err"})
          /\ ret' = 1
          /\ cli_buffer' = b
          /\ lastRead' = IF got THEN "byte"
                         ELSE IF fails THEN "err" ELSE "eof"
          /\ conn' = IF got THEN Tail(conn) ELSE conn
          /\ connState' = connState
          /\ scanBytes' = IF got THEN Append(scanBytes, b) ELSE scanBytes
          /\ eotrs' = sw.eotrs
          /\ eotxt' = sw.eotxt
          /\ scanOut' = IF sw.print THEN Emit(scanOut, b, got, stale)
                         ELSE scanOut
          /\ scanOutcome' = IF sw.done THEN "success" ELSE scanOutcome
          /\ pc' = IF sw.done THEN "hc_loop" ELSE "scan_loop"
  /\ UNCHANGED <<mainVars, user_abort, sigSeen, runVars, nsent, nwritten, hcVars,
                 scanKind, timeout, tout, scanIn, scanEntryAbort, scanWaited>>

\* ------------------------------------------------------------------
\* handle_client
\* ------------------------------------------------------------------
\* The frame of read_cli_buffer is gone: its locals, and what was recorded of
\* the scan, are dropped.
ScanGone ==
  /\ timeout' = 0
  /\ tout' = 0
  /\ eotrs' = FALSE
  /\ eotxt' = FALSE
  /\ cli_buffer' = Uninit
  /\ ret' = Uninit
  /\ lastRead' = "none"
  /\ scanIn' = <<>>
  /\ scanBytes' = <<>>
  /\ scanOut' = <<>>
  /\ scanOutcome' = "none"
  /\ scanEntryAbort' = FALSE
  /\ scanWaited' = FALSE

\* The frames of handle_client and read_cli_buffer are gone and the closed
\* connection holds nothing: what was recorded of the session is dropped.
SessionGone ==
  /\ conn' = <<>>
  /\ connState' = "none"
  /\ nsent' = 0
  /\ nwritten' = 0
  /\ user_cmd' = <<>>
  /\ client_cmd' = <<>>
  /\ cmd_len' = 0
  /\ nlines' = 0
  /\ hcEntryAbort' = FALSE
  /\ scanKind' = "none"
  /\ timeout' = 0
  /\ tout' = 0
  /\ eotrs' = FALSE
  /\ eotxt' = FALSE
  /\ cli_buffer' = Uninit
  /\ ret' = Uninit
  /\ lastRead' = "none"
  /\ scanIn' = <<>>
  /\ scanBytes' = <<>>
  /\ scanOut' = <<>>
  /\ scanOutcome' = "none"
  /\ scanEntryAbort' = FALSE
  /\ scanWaited' = FALSE
  /\ nscans' = 0

\* handle_client returning without line 205
HcReturn_no_close(from) ==
  /\ hcExit' = from
  /\ connOpen' = connOpen
  /\ pc' = "run_loop"
  /\ SessionGone

\* handle_client returns from the place named by from; lines 205-206:
\* close(c_fd), then the loop test of run
HcReturn(from) ==
  /\ hcExit' = from
  /\ connOpen' = FALSE
  /\ pc' = "run_loop"
  /\ SessionGone

\* the loop of handle_client left when the scan before it ended on an error
HcLoop_error_ends ==
  /\ pc = "hc_loop"
  /\ IF LoopGuard(user_abort) /\ scanOutcome # "error"
       THEN /\ pc' = "hc_fgets"
            /\ user_cmd' = <<>>
            /\ client_cmd' = <<>>
            /\ ScanGone
            /\ UNCHANGED <<nscans, connOpen, hcExit, connVars, cmd_len, nlines,
                           hcEntryAbort, scanKind>>
       ELSE HcReturn("loop")
  /\ UNCHANGED <<mainVars, user_abort, sigSeen, pending, sessions, listening,
                 runEntryAbort, runWaited, oobWrite>>

\* line 132: while (!user_abort); lines 133-134 clear both buffers and
\* line 136 blocks in fgets
HcLoop ==
  /\ pc = "hc_loop"
  /\ IF LoopGuard(user_abort)
       THEN /\ pc' = "hc_fgets"
            /\ user_cmd' = <<>>
            /\ client_cmd' = <<>>
            /\ ScanGone
            /\ UNCHANGED <<nscans, connOpen, hcExit, connVars, cmd_len, nlines,
                           hcEntryAbort, scanKind>>
       ELSE HcReturn("loop")
  /\ UNCHANGED <<mainVars, user_abort, sigSeen, pending, sessions, listening,
                 runEntryAbort, runWaited, oobWrite>>

\* lines 136-144: fgets returns with user_cmd holding line (empty when it
\* obtained nothing: its result is ignored) and the flag is tested; the line
\* is assembled and the wire command written.  The write before the start of
\* client_cmd that assemble_cmd makes when cmd_len is 0 either goes unnoticed
\* or stops the process.
HcFgets ==
  /\ pc = "hc_fgets"
  /\ nlines < MaxCmds
  /\ \E line \in KbLines, trap \in BOOLEAN :
       LET a == assemble_cmd(line, client_cmd, Len(line))
       IN IF user_abort
            THEN /\ ~trap
                 /\ HcReturn("read")
                 /\ UNCHANGED oobWrite
          ELSE IF trap
            THEN /\ a.oob
                 /\ pc' = "trapped"
                 /\ oobWrite' = TRUE
                 /\ SessionGone
                 /\ UNCHANGED <<connOpen, hcExit>>
          ELSE /\ pc' = "hc_written"
               /\ user_cmd' = line
               /\ nlines' = nlines + 1
               /\ client_cmd' = a.user_cmd
               /\ cmd_len' = a.cmd_len
               /\ oobWrite' = a.oob
               /\ nwritten' = nwritten + 1
               /\ UNCHANGED <<nscans, connOpen, hcExit, conn, connState, nsent,
                              hcEntryAbort, scanVars>>
  /\ UNCHANGED <<mainVars, user_abort, sigSeen, pending, sessions, listening,
                 runEntryAbort, runWaited>>

\* handle_client without line 149
HcAfterWrite_no_scan ==
  /\ pc = "hc_written"
  /\ IF IsExitCmd(user_cmd)
       THEN HcReturn("exit")
       ELSE /\ pc' = "hc_loop"
            /\ user_cmd' = <<>>
            /\ client_cmd' = <<>>
            /\ cmd_len' = 0
            /\ UNCHANGED <<connOpen, hcExit, connVars, nlines, hcEntryAbort,
                           nscans, scanVars>>
  /\ oobWrite' = FALSE
  /\ UNCHANGED <<mainVars, user_abort, sigSeen, pending, sessions, listening,
                 runEntryAbort, runWaited>>

\* lines 145-149: handle_client returns on the exit command, and calls the
\* reply scan otherwise.  user_cmd, client_cmd and cmd_len are not read again
\* before lines 133-142 set them anew: they are recorded as cleared from here
\* on, and so is the note of the out-of-bounds write.
HcAfterWrite ==
  /\ pc = "hc_written"
  /\ IF IsExitCmd(user_cmd)
       THEN HcReturn("exit")
       ELSE /\ ScanEnter("reply", CLIENT_REPLY_TIMEOUT, conn)
            /\ pc' = "scan_loop"
            /\ user_cmd' = <<>>
            /\ client_cmd' = <<>>
            /\ cmd_len' = 0
            /\ nscans' = nscans + 1
            /\ UNCHANGED <<connOpen, hcExit, connVars, nlines, hcEntryAbort>>
  /\ oobWrite' = FALSE
  /\ UNCHANGED <<mainVars, user_abort, sigSeen, pending, sessions, listening,
                 runEntryAbort, runWaited>>

\* ------------------------------------------------------------------
\* run
\* ------------------------------------------------------------------
\* lines 161-187: socket, bind and listen succeed; the loop test comes next
RunStart ==
  /\ pc = "main"
  /\ pc' = "run_loop"
  /\ listening' = TRUE
  /\ runEntryAbort' = user_abort
  /\ UNCHANGED <<mainVars, user_abort, sigSeen, pending, sessions, connOpen, runWaited,
                 hcExit, connVars, hcVars, scanVars>>

\* run returning without line 213
RunExit_no_close ==
  /\ listening' = listening
  /\ pc' = "done"

\* lines 211-215: close(s_fd) and return
RunExit ==
  /\ listening' = FALSE
  /\ pc' = "done"

\* line 189: while (!user_abort); select is called (line 193) or run returns
RunLoop ==
  /\ pc = "run_loop"
  /\ IF LoopGuard(user_abort)
       THEN /\ pc' = "run_select"
            /\ runWaited' = TRUE
            /\ UNCHANGED listening
       ELSE /\ RunExit
            /\ UNCHANGED runWaited
  /\ UNCHANGED <<mainVars, user_abort, sigSeen, pending, sessions, connOpen,
                 runEntryAbort, hcExit, connVars, hcVars, scanVars>>

\* lines 193-197: select on the listening socket fails for a reason other
\* than a signal; run leaves its loop
RunSelectFails ==
  /\ pc = "run_select"
  /\ RunExit
  /\ UNCHANGED <<mainVars, user_abort, sigSeen, pending, sessions, connOpen,
                 runEntryAbort, runWaited, hcExit, connVars, hcVars, scanVars>>

\* lines 193-204: select reports the listening socket readable, accept gives
\* the connection, handle_client is called and calls the prompt scan
RunAccept ==
  /\ pc = "run_select"
  /\ pending
  /\ pending' = FALSE
  /\ sessions' = sessions + 1
  /\ connOpen' = TRUE
  /\ hcExit' = "none"
  /\ conn' = <<>>
  /\ connState' = "open"
  /\ nsent' = 0
  /\ nwritten' = 0
  /\ user_cmd' = <<>>
  /\ client_cmd' = <<>>
  /\ cmd_len' = 0
  /\ nlines' = 0
  /\ hcEntryAbort' = user_abort
  /\ nscans' = 1
  /\ ScanEnter("prompt", PROMPT_TIMEOUT, <<>>)
  /\ pc' = "scan_loop"
  /\ UNCHANGED <<mainVars, user_abort, sigSeen, listening, runEntryAbort, runWaited,
                 oobWrite>>

\* ------------------------------------------------------------------
\* sig_handler and the environment
\* ------------------------------------------------------------------
\* lines 25-29, run on SIGINT, SIGTERM or SIGQUIT.  A select that is blocked
\* with nothing ready returns -1 (EINTR) when the signal lands during it, and
\* stays blocked when the signal landed just before it; a blocked fgets is
\* restarted.
sig_handler_toggle ==
  /\ user_abort' = ~user_abort
  /\ sigSeen' = TRUE

sig_handler ==
  /\ user_abort' = TRUE
  /\ sigSeen' = TRUE

SignalPlain ==
  /\ pc \notin {"done", "trapped"}
  /\ sig_handler
  /\ UNCHANGED <<mainVars, pc, runVars, connVars, hcVars, scanVars>>

\* lines 193-197: select on the listening socket fails, run leaves its loop
SignalInRunSelect ==
  /\ pc = "run_select"
  /\ ~pending
  /\ sig_handler
  /\ RunExit
  /\ UNCHANGED <<mainVars, pending, sessions, connOpen, runEntryAbort, runWaited,
                 hcExit, connVars, hcVars, scanVars>>

\* lines 76-83: select on the connection fails, the scan ends
SignalInScanSelect ==
  /\ pc = "scan_select"
  /\ ~Readable
  /\ sig_handler
  /\ ScanSelectReturns(-1)
  /\ UNCHANGED <<mainVars, runVars, connVars, hcVars, scanKind, timeout, tout, eotrs,
                 eotxt, cli_buffer, lastRead, scanIn, scanBytes, scanOut,
                 scanEntryAbort, scanWaited>>

\* The process observes its peers only inside select and read, which it calls
\* from the three places where it blocks: what a peer does while the process
\* is between two calls is recorded when the process has reached the next one.
Blocked == pc \in {"run_select", "scan_select", "hc_fgets"}

\* a peer connects and waits in the backlog; the peers come one after the
\* other, the next one once the connection of the previous one is closed
PeerConnectUpTo(n) ==
  /\ Blocked
  /\ listening
  /\ ~connOpen
  /\ ~pending
  /\ sessions < n
  /\ pending' = TRUE
  /\ UNCHANGED <<mainVars, pc, user_abort, sigSeen, sessions, listening, connOpen,
                 runEntryAbort, runWaited, hcExit, connVars, hcVars, scanVars>>

PeerConnect == PeerConnectUpTo(MaxSessions)

\* the peer of the current session delivers one more byte, the n-th at most
PeerSendUpTo(n) ==
  /\ Blocked
  /\ connOpen
  /\ connState = "open"
  /\ nsent < n
  /\ nsent' = nsent + 1
  /\ \E b \in PeerBytes :
       /\ conn' = Append(conn, b)
       /\ scanIn' = Append(scanIn, b)
  /\ UNCHANGED <<mainVars, pc, user_abort, sigSeen, runVars, connState, nwritten, hcVars,
                 scanKind, timeout, tout, eotrs, eotxt, cli_buffer, ret,
                 lastRead, scanBytes, scanOut, scanOutcome, scanEntryAbort,
                 scanWaited>>

PeerSend == PeerSendUpTo(MaxPeer)

\* the peer closes the connection or resets it: the connection stays
\* readable, and a read that finds no byte queued returns 0 or fails
PeerDrop ==
  /\ Blocked
  /\ connOpen
  /\ connState = "open"
  /\ connState' = "closed"
  /\ UNCHANGED <<mainVars, pc, user_abort, sigSeen, runVars, conn, nsent, nwritten,
                 hcVars, scanVars>>

\* the steps of the process itself, without the failures of select
Program ==
  \/ RunStart \/ RunLoop \/ RunAccept
  \/ HcLoop \/ HcFgets \/ HcAfterWrite
  \/ ScanLoop \/ ScanSelectTimeout \/ ScanRead

Next ==
  \/ RunStart \/ RunLoop \/ RunAccept
  \/ HcLoop \/ HcFgets \/ HcAfterWrite
  \/ ScanLoop \/ ScanWait \/ ScanSelectTimeout \/ ScanRead
  \/ SignalPlain \/ SignalInRunSelect \/ SignalInScanSelect
  \/ ScanSelectFails \/ RunSelectFails
  \/ PeerConnect \/ PeerSend \/ PeerDrop

Spec == Init /\ [][Next]_vars

\* ------------------------------------------------------------------
\* assemble_cmd on its own: every newline-terminated line over LineBytes of
\* up to MaxLine bytes is in user_cmd when fgets has returned (line 136), and
\* lines 141-142 assemble it
\* ------------------------------------------------------------------
AsmLines ==
  { body \o <<NEWLINE>> :
      body \in UNION { [1..n -> LineBytes] : n \in 0..MaxLine } }

\* fgets has returned with one of lines in user_cmd
AsmInitWith(lines) ==
  /\ pc = "asm"
  /\ user_cmd \in lines
  /\ argv = <<[opt |-> "p", arg |-> <<49>>]>>
  /\ port = Htons(Atoi(<<49>>))
  /\ Fresh

AsmInit == AsmInitWith(AsmLines)

\* what fgets(user_cmd, sizeof(user_cmd), stdin) can leave in the zeroed
\* buffer, by length: up to BUF_SIZE - 1 bytes, none of them a newline but
\* possibly the last (the bytes before it are x here)
FgetsLines ==
  { [i \in 1..n |-> 120] : n \in 0..(BUF_SIZE - 1) }
  \cup { [i \in 1..n |-> IF i = n THEN NEWLINE ELSE 120] : n \in 1..(BUF_SIZE - 1) }

BufInit == AsmInitWith(FgetsLines)

\* lines 141-142: cmd_len = strlen(user_cmd); assemble_cmd(user_cmd,
\* client_cmd, &cmd_len)
AsmApply ==
  /\ pc = "asm"
  /\ LET a == assemble_cmd(user_cmd, client_cmd, Strlen(user_cmd))
     IN /\ client_cmd' = a.user_cmd
        /\ cmd_len' = a.cmd_len
        /\ oobWrite' = a.oob
  /\ pc' = "asm_done"
  /\ UNCHANGED <<mainVars, nscans, user_abort, sigSeen, runVars, connVars, user_cmd, nlines,
                 hcEntryAbort, scanVars>>

AsmNext == AsmApply

AsmSpec == AsmInit /\ [][AsmNext]_vars

\* assemble_cmd on every length of line the 1024-byte buffer can hold
BufSpec == BufInit /\ [][AsmNext]_vars

\* ------------------------------------------------------------------
\* parse_args on its own (lines 218-227): main starts with a command line,
\* calls parse_args, and goes on to run or prints the usage and exits
\* ------------------------------------------------------------------
\* the bytes of an argument of -p: - 0 1 a
ArgChars == {45, 48, 49, 97}

\* every argument of up to MaxArgLen of those bytes, and 80, 65535, 65536,
\* 65537
ArgStrings ==
  UNION { [1..n -> ArgChars] : n \in 1..MaxArgLen }
  \cup { <<56, 48>>, <<54, 53, 53, 51, 53>>, <<54, 53, 53, 51, 54>>,
         <<54, 53, 53, 51, 55>> }

OptH == [opt |-> "h", arg |-> <<>>]
OptUnknown == [opt |-> "?", arg |-> <<>>]
OptP(str) == [opt |-> "p", arg |-> str]

\* command lines: no option, -h, an option getopt does not know, -p with an
\* argument, and -p with -h after or before it
Argvs ==
  { <<>>, <<OptH>>, <<OptUnknown>> }
  \cup { <<OptP(str)>> : str \in ArgStrings }
  \cup { <<OptP(str), OptH>> : str \in ArgStrings }
  \cup { <<OptH, OptP(str)>> : str \in ArgStrings }

ArgInit ==
  /\ pc = "parse_args"
  /\ user_cmd = <<>>
  /\ argv \in Argvs
  /\ port = 0
  /\ Fresh

\* lines 224-227: parse_args, then usage and exit(EXIT_FAILURE), or on
\* towards run
ParseArgs ==
  /\ pc = "parse_args"
  /\ LET r == parse_args(argv)
     IN /\ port' = r.port
        /\ pc' = IF r.ret # 0 THEN "usage" ELSE "main"
  /\ UNCHANGED <<argv, user_abort, sigSeen, runVars, connVars, hcVars,
                 scanVars>>

ArgNext == ParseArgs

ArgSpec == ArgInit /\ [][ArgNext]_vars

\* the process keeps running: a step of the program that stays possible is
\* taken.  Nothing is assumed of the signals and of the peers.
FairSpec == Spec /\ WF_vars(Program)

\* the same process and the same fairness with fewer peers and fewer bytes
ShutdownNext ==
  \/ RunStart \/ RunLoop \/ RunAccept
  \/ HcLoop \/ HcFgets \/ HcAfterWrite
  \/ ScanLoop \/ ScanWait \/ ScanSelectTimeout \/ ScanRead
  \/ SignalPlain \/ SignalInRunSelect \/ SignalInScanSelect
  \/ ScanSelectFails \/ RunSelectFails
  \/ PeerConnectUpTo(ShutdownSessions) \/ PeerSendUpTo(ShutdownPeer)
  \/ PeerDrop

ShutdownSpec == Init /\ [][ShutdownNext]_vars /\ WF_vars(Program)

\* ------------------------------------------------------------------
\* Properties
\* ------------------------------------------------------------------
\* printf "<0x03><0x04>" and a newline
TrailerBytes == <<112, 114, 105, 110, 116, 102, 32, 34, 3, 4, 34, 10>>

\* the wire command the contract gives for the operator line L
ExpectedWire(L) ==
  IF L = <<10>> THEN TrailerBytes
  ELSE SubSeq(L, 1, Len(L) - 1) \o <<32, 59, 32>> \o TrailerBytes

\* C1: for every operator line ending in a newline, client_cmd holds, as a
\* C string, the trailer alone when the line is "\n" and otherwise the line
\* without its newline, then " ; ", then the trailer; cmd_len is the length
\* of that wire command.
C1_AssembleWire ==
  pc = "asm_done" =>
    /\ client_cmd = ExpectedWire(user_cmd) \o <<0>>
    /\ cmd_len = Len(ExpectedWire(user_cmd))
    /\ cmd_len # Len(user_cmd)

\* "ls\n" has given  ls ; printf "<0x03><0x04>"\n
C1_Witness ==
  /\ pc = "asm_done"
  /\ user_cmd = <<108, 115, 10>>
  /\ cmd_len = 17
  /\ SubSeq(client_cmd, 1, cmd_len) =
       <<108, 115, 32, 59, 32, 112, 114, 105, 110, 116, 102, 32, 34, 3, 4,
         34, 10>>

\* byte i of bytes is a space and both sentinels come before it
TermAt(bytes, i) ==
  /\ bytes[i] = 32
  /\ \E j \in 1..(i-1) : bytes[j] = 3
  /\ \E j \in 1..(i-1) : bytes[j] = 4

\* C2: a scan has ended successfully exactly when the last byte it read is
\* a space with 0x03 and 0x04 both read before it in the same scan; a space
\* read with at most one of them before it does not end the scan.
C2_SuccessIffTerminator ==
  /\ scanOutcome = "success" =>
       /\ lastRead = "byte"
       /\ scanBytes # <<>>
       /\ TermAt(scanBytes, Len(scanBytes))
  /\ \A i \in 1..Len(scanBytes) :
       TermAt(scanBytes, i) => (i = Len(scanBytes) /\ scanOutcome = "success")

\* the stream h, ETX, EOT, space has ended a scan successfully
C2_Witness ==
  /\ scanOutcome = "success"
  /\ scanBytes = <<104, 3, 4, 32>>

\* C3: what the scanner has printed is what it has received, in order,
\* without the bytes 0x03 and 0x04.
C3_TerminalIsReceived ==
  scanOut = SelectSeq(scanBytes, LAMBDA x : x # 3 /\ x # 4)

\* C4: once a scan has read a space after both sentinels it has ended, that
\* space is the last byte it read, and every byte delivered after it is
\* still unread on the connection.
C4_StopsAtSpace ==
  \A i \in 1..Len(scanBytes) :
    TermAt(scanBytes, i) =>
      /\ i = Len(scanBytes)
      /\ pc \notin {"scan_loop", "scan_select"}
      /\ scanIn = scanBytes \o conn

\* ETX, EOT, space, h: the scan ended at the space and h is still unread
C4_Witness ==
  /\ scanOutcome = "success"
  /\ scanBytes = <<3, 4, 32>>
  /\ conn = <<104>>
  /\ pc = "hc_loop"

\* C5: when select returns 0 the scan ends through the timeout branch: it
\* reads nothing and prints nothing in that step (nothing at all when no
\* byte had arrived), its outcome is a timeout and not an error, control is
\* at the loop test of handle_client, and the loop goes on to the next line.
C5_TimeoutEndsScan ==
  [][ /\ (pc = "scan_select" /\ ret' = 0) =>
           /\ scanOutcome' = "timeout"
           /\ pc' = "hc_loop"
           /\ conn' = conn
           /\ scanBytes' = scanBytes
           /\ scanOut' = scanOut
           /\ lastRead' = lastRead
           /\ connOpen'
           /\ (scanIn = <<>> => (scanBytes' = <<>> /\ scanOut' = <<>>))
      /\ (pc = "hc_loop" /\ scanOutcome = "timeout" /\ ~user_abort /\ pc' # pc)
           => (pc' = "hc_fgets" /\ connOpen')
    ]_vars

\* a scan to which nothing arrived timed out and control is back at the loop
\* test of handle_client
C5_Witness ==
  /\ scanOutcome = "timeout"
  /\ ret = 0
  /\ scanIn = <<>>
  /\ scanBytes = <<>>
  /\ pc = "hc_loop"
  /\ ~user_abort

\* C6: a component entered with the flag set does no wait and no I/O: the
\* scan calls no select and reads nothing, handle_client reads no line and
\* writes nothing, the accept loop calls no select and accepts nothing.
C6_AbortAtEntry ==
  /\ scanEntryAbort =>
       /\ ~scanWaited
       /\ lastRead = "none"
       /\ scanBytes = <<>>
       /\ pc # "scan_select"
  /\ hcEntryAbort =>
       /\ nlines = 0
       /\ nwritten = 0
       /\ pc \notin {"hc_fgets", "hc_written"}
  /\ runEntryAbort =>
       /\ ~runWaited
       /\ sessions = 0
       /\ pc # "run_select"

\* handle_client and its prompt scan were entered with the flag set and the
\* scan has returned
C6_Witness ==
  /\ hcEntryAbort
  /\ scanEntryAbort
  /\ scanKind = "prompt"
  /\ scanOutcome = "abort"
  /\ pc = "hc_loop"

\* C7: user_abort starts false, only sig_handler changes it, and once true
\* it stays true.
C7_AbortMonotonic ==
  /\ ~user_abort
  /\ [][ /\ user_abort => user_abort'
         /\ (user_abort' # user_abort) =>
              (SignalPlain \/ SignalInRunSelect \/ SignalInScanSelect)
       ]_vars

\* the flag was set while a session waited for a line and is still set
\* after the session ended and run returned
C7_Witness ==
  /\ user_abort
  /\ hcExit = "read"
  /\ sessions >= 1
  /\ pc = "done"

\* exit ; printf "<0x03><0x04>" and a newline
ExitWire ==
  <<101, 120, 105, 116, 32, 59, 32, 112, 114, 105, 110, 116, 102, 32, 34, 3,
    4, 34, 10>>

\* C8: after the write, the line "exit\n" (whose wire command is
\* exit ; printf "<0x03><0x04>"\n) ends the session with no further scan, and
\* every other line starts the reply scan.
C8_ExitEndsSession ==
  [][ (pc = "hc_written" /\ pc' # pc) =>
        IF user_cmd = <<101, 120, 105, 116, 10>>
        THEN /\ client_cmd = ExitWire \o <<0>>
             /\ cmd_len = Len(ExitWire)
             /\ nwritten >= 1
             /\ pc' = "run_loop"
             /\ hcExit' = "exit"
             /\ ~connOpen'
             /\ scanKind' = "none"
        ELSE /\ pc' = "scan_loop"
             /\ scanKind' = "reply"
             /\ scanOutcome' = "running"
             /\ timeout' = 120
             /\ connOpen'
    ]_vars

\* a session has ended on the exit command
C8_Witness ==
  /\ hcExit = "exit"
  /\ pc = "run_loop"
  /\ ~connOpen

\* C9: when the line read obtains no line, or the flag is set when it
\* returns, handle_client returns: nothing is assembled or written.
C9_NoInputTerminates ==
  [][ (pc = "hc_fgets" /\ pc' # pc /\ (user_cmd' = <<>> \/ user_abort)) =>
        (pc' = "run_loop" /\ ~connOpen')
    ]_vars

\* C10: once a read on the connection has reported end of stream the
\* session ends and its connection is closed.
C10_DropEndsSession ==
  (lastRead = "eof") ~> (~connOpen)

\* the flag is set and control is at a loop test of handle_client or of run
AbortAtLoopTest == user_abort /\ pc \in {"hc_loop", "run_loop"}

\* C11: a signal that sets the flag while select is blocked ends the wait:
\* run returns at once from the select on the listening socket, with that
\* socket closed and no connection open, and the scan returns to the loop
\* test of handle_client from the select on the connection; with the flag
\* set, the loop tests lead only towards the return of run (no line is read,
\* nothing is written, nothing is accepted), and run does return, with the
\* connection and the listening socket closed.
C11_AbortEndsWait ==
  /\ [][ /\ (pc = "run_select" /\ ~user_abort /\ user_abort' /\ pc' # pc) =>
              /\ pc' = "done"
              /\ ~listening'
              /\ ~connOpen'
              /\ sessions' = sessions
         /\ (pc = "scan_select" /\ ~user_abort /\ user_abort' /\ pc' # pc) =>
              /\ pc' = "hc_loop"
              /\ ret' = -1
              /\ scanBytes' = scanBytes
              /\ nwritten' = nwritten
         /\ AbortAtLoopTest =>
              /\ pc' \in {"hc_loop", "run_loop", "done"}
              /\ sessions' = sessions
              /\ nlines' <= nlines
              /\ nwritten' <= nwritten
              /\ nscans' <= nscans
       ]_vars
  /\ AbortAtLoopTest ~> (pc = "done" /\ ~listening /\ ~connOpen)

\* a signal has interrupted the select of a scan: the scan has returned with
\* the flag set
C11_Witness ==
  /\ pc = "hc_loop"
  /\ user_abort
  /\ ret = -1
  /\ scanOutcome = "error"
  /\ scanWaited
  /\ connOpen

\* control is inside handle_client or read_cli_buffer
InSession == pc \in {"scan_loop", "scan_select", "hc_loop", "hc_fgets",
                     "hc_written"}

\* C12: a connection is open only while control is inside handle_client;
\* accept is called only from the select of the accept loop, with no
\* connection open, and opens one; the connection is closed by the step in
\* which handle_client returns to the accept loop.
C12_SessionsSequential ==
  /\ [](pc \in {"main", "run_loop", "run_select", "done"} => ~connOpen)
  /\ [](InSession => connOpen)
  /\ [][ /\ (sessions' # sessions) =>
              /\ pc = "run_select"
              /\ ~connOpen
              /\ connOpen'
              /\ sessions' = sessions + 1
              /\ pc' = "scan_loop"
         /\ (InSession /\ pc' \notin {"scan_loop", "scan_select", "hc_loop",
                                       "hc_fgets", "hc_written", "trapped"}) =>
              /\ pc' = "run_loop"
              /\ ~connOpen'
              /\ sessions' = sessions
       ]_vars

\* a second session has run after the first and its connection is closed
C12_Witness ==
  /\ sessions = 2
  /\ pc = "run_loop"
  /\ ~connOpen
  /\ hcExit # "none"

\* C13: whatever line fgets left, assemble_cmd writes no byte before index 0
\* or past index 1023 of client_cmd, and the wire command with its
\* terminating 0 fits in the 1024 bytes.
C13_AssembleInBounds ==
  pc = "asm_done" =>
    /\ ~oobWrite
    /\ Len(client_cmd) <= BUF_SIZE
    /\ cmd_len + 1 <= BUF_SIZE

\* str is a decimal number from 1 to 65535
ValidPort(str) ==
  /\ Len(str) >= 1
  /\ \A i \in 1..Len(str) : str[i] \in 48..57
  /\ DigitsFrom(str, 1, 0) \in 1..65535

\* C14: main goes on to run exactly when -h is absent and -p is given with
\* a decimal number from 1 to 65535, and cfg.port is then that number in
\* network byte order; in every other case it prints the usage and exits.
C14_PortValidated ==
  LET ps == { i \in 1..Len(argv) : argv[i].opt = "p" }
      ok == /\ \A i \in 1..Len(argv) : argv[i].opt # "h"
            /\ ps # {}
            /\ \A i \in ps : ValidPort(argv[i].arg)
  IN /\ pc = "usage" => ~ok
     /\ pc = "main" =>
          /\ ok
          /\ \E i \in ps : Htons(port) = DigitsFrom(argv[i].arg, 1, 0)

\* C15: a reply scan that ends by success, timeout or select error returns
\* to the loop test of handle_client with the connection open and nothing
\* more written; what follows depends on the flag alone: with the flag clear
\* the next operator line is read, whatever the outcome was, and nothing is
\* written again before it.
C15_BackToReading ==
  [][ /\ (scanKind = "reply" /\ scanOutcome = "running"
           /\ scanOutcome' \in {"success", "timeout", "error"}) =>
             /\ pc' = "hc_loop"
             /\ connOpen'
             /\ listening'
             /\ nwritten' = nwritten
      /\ (pc = "hc_loop" /\ scanKind = "reply" /\ pc' # pc) =>
             IF user_abort
             THEN pc' = "run_loop" /\ hcExit' = "loop"
             ELSE /\ pc' = "hc_fgets"
                  /\ connOpen'
                  /\ listening'
                  /\ nwritten' = nwritten
                  /\ nlines' = nlines
    ]_vars

\* the reply scan of the first command has returned and the second line is
\* awaited
C15_Witness ==
  /\ pc = "hc_fgets"
  /\ scanKind = "reply"
  /\ nwritten = 1
  /\ nlines = 1
  /\ connOpen
  /\ ~user_abort

\* C16: the read that fails ends the scan: control is back at the loop test
\* of handle_client, nothing was printed for that read, and the process goes
\* on with its connection and its listening socket.
C16_ReadErrorEndsScan ==
  [][ (lastRead # "err" /\ lastRead' = "err") =>
        /\ pc' = "hc_loop"
        /\ scanOut' = scanOut
        /\ eotrs' = eotrs
        /\ eotxt' = eotxt
        /\ connOpen'
        /\ listening'
    ]_vars

\* C17: in a session the first call of read_cli_buffer is the prompt scan
\* with timeout 1, made before any line is read or anything is written;
\* every other call is a reply scan with timeout 120 made right after a
\* write; a line is read and a command written only when every command
\* written before has had its scan, so that the scans entered are always
\* one more than the commands written, but right after a write.
C17_ScanWriteOrder ==
  /\ [](InSession =>
          nscans = nwritten + (IF pc = "hc_written" THEN 0 ELSE 1))
  /\ [][ /\ (nscans' = nscans + 1) =>
              IF nscans = 0
              THEN /\ pc = "run_select"
                   /\ scanKind' = "prompt"
                   /\ timeout' = 1
                   /\ nlines' = 0
                   /\ nwritten' = 0
              ELSE /\ pc = "hc_written"
                   /\ scanKind' = "reply"
                   /\ timeout' = 120
                   /\ nscans = nwritten
         /\ (nwritten' = nwritten + 1) =>
              /\ pc = "hc_fgets"
              /\ nlines' = nlines + 1
              /\ nscans = nwritten + 1
         /\ (pc = "hc_written" /\ pc' # pc) =>
              IF user_cmd = <<101, 120, 105, 116, 10>>
              THEN nscans' = 0 /\ pc' = "run_loop"
              ELSE nscans' = nscans + 1 /\ pc' = "scan_loop"
       ]_vars

\* two commands were written and the scan of the second is under way
C17_Witness ==
  /\ pc = "scan_select"
  /\ scanKind = "reply"
  /\ nwritten = 2
  /\ nlines = 2
  /\ nscans = 3

\* C18: every call of select in a scan is given the whole timeout of the
\* scan, whatever time the waits before it took.
C18_TimeoutPerRead ==
  [][ (pc = "scan_loop" /\ pc' = "scan_select") => tout = timeout ]_vars

\* C19: when a command after the first is written, nothing that the peer
\* sent before it is still unread on the connection: every byte the scan of
\* that command reads, its 0x03 and 0x04 among them, was sent after the
\* command was written.
C19_OneExchangeInFlight ==
  [][ (nwritten >= 1 /\ nwritten' = nwritten + 1) => conn = <<>> ]_vars

\* C20: a call of read_cli_buffer starts with both flags false, and while
\* its reads deliver bytes each flag is set exactly when its sentinel is
\* among the bytes this call has read; a scan that ended successfully has
\* read both sentinels itself.
C20_FlagsPerScan ==
  /\ [][ (nscans' = nscans + 1) => (~eotrs' /\ ~eotxt') ]_vars
  /\ [](lastRead \in {"none", "byte"} =>
          /\ eotxt <=> (\E i \in 1..Len(scanBytes) : scanBytes[i] = 3)
          /\ eotrs <=> (\E i \in 1..Len(scanBytes) : scanBytes[i] = 4))
  /\ [](scanOutcome = "success" =>
          /\ \E i \in 1..Len(scanBytes) : scanBytes[i] = 3
          /\ \E i \in 1..Len(scanBytes) : scanBytes[i] = 4)

\* the prompt scan read one byte; the reply scan has read 0x04 and a space
\* since and goes on, with the flag of 0x03 clear
C20_Witness ==
  /\ pc = "scan_select"
  /\ scanKind = "reply"
  /\ scanOutcome = "running"
  /\ nsent = 3
  /\ conn = <<>>
  /\ scanBytes = <<4, 32>>
  /\ eotrs
  /\ ~eotxt

====
